---- MODULE Spec2Model ----
(***************************************************************************)
(* Model of the THU RSVP dataset loader (thu_rsvp_dataset): the facade     *)
(* THU_RSVP_Dataset (thu.py), the session parser load_trials_one_session   *)
(* (worker.py), the integrity helpers (utils.py) and the Downsample        *)
(* transform (filter.py).                                                  *)
(*                                                                         *)
(* Signals are symbolic: a matrix is a strided view (rows, start, step,    *)
(* len) onto the raw recording of one block, which is exact for the        *)
(* operations the loader applies (channel selection, decimation, column    *)
(* slicing).  Value-changing filters (Notch, Bandpass) keep shape and rate *)
(* and are not modelled.                                                   *)
(***************************************************************************)
EXTENDS Integers, Sequences, FiniteSets, TLC

\* ---------------------------------------------------------------- bounds
\* Largest raw onset of the range tried in direct calls of the parser.
MaxOnset == 12
\* Number of subjects (64 in thu.py:179, range(1, 65)).
NumSubjects == 2
\* Trigger entries per block (4000 = 40 sequences * 100 trials in the data).
TriggersPerBlock == 2
\* Pool size, n_processes = int(cpu_count / 2 * 3) (thu.py:187).
NumWorkers == 2
\* Number of dataset objects constructed and run one after the other.
MaxRuns == 2
\* Loose (non-archive) files of the manifest (4 in files.py:14-19).
NumLooseFiles == 1
\* Subjects per archive folder (10 in files.py:22-30).
SubjectsPerFolder == 1

\* ------------------------------------------------------ program constants
original_sample_rate_hz == 250
NumRawChannels == 64
NumBlocks == 2

Min(a, b) == IF a <= b THEN a ELSE b
Max(a, b) == IF a >= b THEN a ELSE b

\* An index array is kept run-length encoded, as the sequence of half-open
\* ranges [lo, hi) it runs through: np.r_[0:32, 33:42] is <<0, 32>>, <<33, 42>>.
PyRange(a, b) == <<[lo |-> a, hi |-> Max(a, b)]>>

RECURSIVE IndexLen(_)
\* len() of an index array.
IndexLen(idx) ==
    IF idx = <<>> THEN 0 ELSE (idx[1].hi - idx[1].lo) + IndexLen(Tail(idx))

\* As channels_to_use, with no channel left out.
AllChannels == PyRange(0, 64)

\* thu.py:58  np.r_[0:32, 33:42, 43:64]
channels_to_use == PyRange(0, 32) \o PyRange(33, 42) \o PyRange(43, 64)
\* thu.py:59
n_channels == IndexLen(channels_to_use)

\* ------------------------------------------------------- symbolic arrays
\* A 2-d array: the rows `rows` and the columns start, start+step, ... (len of
\* them) of the recording `src` (<<session index, block>>, or <<0, 0>> for np.ones).
View(src, rows, start, step, len) ==
    [src |-> src, rows |-> rows, start |-> start, step |-> step, len |-> len]

\* ndarray.shape
Shape(m) == <<IndexLen(m.rows), m.len>>

\* data[idx] with an index array on the first axis (worker.py:24), for an
\* array whose rows are one contiguous range, as a loaded recording's are.
TakeRows(m, idx) ==
    [m EXCEPT !.rows = [i \in 1..Len(idx) |->
                          [lo |-> m.rows[1].lo + idx[i].lo,
                           hi |-> m.rows[1].lo + idx[i].hi]]]

\* data[..., a:b] for 0 <= a: Python clamps both ends to the length.
SliceCols(m, a, b) ==
    LET lo == Min(a, m.len)
        hi == Min(Max(b, 0), m.len)
    IN  [m EXCEPT !.start = m.start + m.step * lo, !.len = Max(hi - lo, 0)]

\* data[:, ::k]
EveryKth(m, k) == [m EXCEPT !.step = m.step * k, !.len = (m.len + k - 1) \div k]

\* ------------------------------------------------------------ transforms
\* A transform is 0 (None) or k >= 1, standing for Downsample(k).
NoTransform == 0

\* filter.py:34-35  Downsample.__call__ with fs given.
Downsample(k, data, fs) == [data |-> EveryKth(data, k), fs |-> fs \div k]

ApplyTransform(t, data, fs) == Downsample(t, data, fs)

\* --------------------------------------------------------------- dataset
\* thu.py:177-181  mat_files: subjects ascending, session A before B.
Sessions == <<"A", "B">>
mat_files ==
    [k \in 1..(NumSubjects * Len(Sessions)) |->
        [subj |-> ((k - 1) \div Len(Sessions)) + 1,
         session |-> Sessions[((k - 1) % Len(Sessions)) + 1]]]
NumSessions == Len(mat_files)

\* thu.py:55  n_trials = 64 * 2 * 2 * 40 * 100: subjects * sessions * blocks *
\* (sequences * trials per sequence).
NTrials(subjects, triggers) == subjects * 2 * 2 * triggers
\* n_trials at the model's scale.
n_trials == NTrials(NumSubjects, TriggersPerBlock)

\* Constructor argument trial_duration_ms.
TrialDurationChoices == {500}
\* Constructor argument transform: None or Downsample(2).
TransformChoices == {NoTransform, 2}

\* thu.py:64 and thu.py:70  int(trial_duration_ms / 1000 * rate)
DurationSamples(ms, rate) == (ms * rate) \div 1000

\* What a session file holds: well-formed with every window inside the signal
\* ("ok"), well-formed with a second block too short for its windows ("short"),
\* or lacking an expected field ("malformed").
MatKinds == {"ok", "short", "malformed"}

\* Length of the second block's signal in a "short" file.
ShortSignalLen == 100

\* trigger_positions[b][i] (0-based sample index at the original rate).
RawOnset(b, i) == b + 3 * (i - 1)
\* class_labels[b][i], values in {1, 2}.
RawLabel(k, b, i) == 1 + ((k + b + i) % 2)

\* Length of block b's signal: in an "ok" file the last window of the longest
\* trial duration ends exactly at the end of the signal.
SignalLen(kind, b) ==
    IF kind = "short" /\ b = 2
    THEN ShortSignalLen
    ELSE RawOnset(b, TriggersPerBlock)
         + DurationSamples(500, original_sample_rate_hz)

\* scipy.io.loadmat(mat_file) for session k (worker.py:20).
loadmat(k, kind) ==
    [ok |-> kind # "malformed",
     EEGdata1 |-> View(<<k, 1>>, PyRange(0, NumRawChannels), 0, 1, SignalLen(kind, 1)),
     EEGdata2 |-> View(<<k, 2>>, PyRange(0, NumRawChannels), 0, 1, SignalLen(kind, 2)),
     trigger_positions |->
        [b \in 1..NumBlocks |-> [i \in 1..TriggersPerBlock |-> RawOnset(b, i)]],
     class_labels |->
        [b \in 1..NumBlocks |-> [i \in 1..TriggersPerBlock |-> RawLabel(k, b, i)]]]

\* ---------------------------------------------------------- session parser
\* The double nearest to orig/final lies above the exact quotient for 250/83
\* (3.0120481927710845), 250/41 and 250/35, so t // (250/83) is one less than
\* floor(t*83/250) when 250 divides t*83 and t > 0.  For 250/62 it lies below,
\* and exact quotients (final divides orig) are exact.
FactorRoundedUp(orig, final) == orig = 250 /\ final \in {83, 41, 35}

\* As ConvertedOnset, the raw onset left as it is.
ConvertedOnsetUnchanged(t, orig, final) == t

\* worker.py:41,45  int(trial_onset // (original_rate / final_rate))
ConvertedOnset(t, orig, final) ==
    LET q == (t * final) \div orig
    IN  IF t > 0 /\ (t * final) % orig = 0 /\ FactorRoundedUp(orig, final)
        THEN q - 1
        ELSE q

\* As BlockTrials, walking the triggers from the last to the first.
BlockTrialsReversed(data, onsets, labels, orig, final, tds) ==
    [trial_data |->
        [i \in 1..Len(onsets) |->
            LET c == ConvertedOnset(onsets[Len(onsets) + 1 - i], orig, final)
            IN  SliceCols(data, c, c + tds)],
     trial_labels |-> [i \in 1..Len(onsets) |-> labels[Len(onsets) + 1 - i]]]

\* As BlockTrials, leaving out the block's last trigger.
BlockTrialsSkipLast(data, onsets, labels, orig, final, tds) ==
    [trial_data |->
        [i \in 1..(Len(onsets) - 1) |->
            LET c == ConvertedOnset(onsets[i], orig, final)
            IN  SliceCols(data, c, c + tds)],
     trial_labels |-> [i \in 1..(Len(onsets) - 1) |-> labels[i]]]

\* worker.py:42-47  the trials and labels of one block, in trigger order.
BlockTrials(data, onsets, labels, orig, final, tds) ==
    [trial_data |->
        [i \in 1..Len(onsets) |->
            LET c == ConvertedOnset(onsets[i], orig, final)
            IN  SliceCols(data, c, c + tds)],
     trial_labels |-> [i \in 1..Len(onsets) |-> labels[i]]]

\* As StoredLabels, keeping the raw codes.
StoredLabelsRaw(raw) == raw

\* worker.py:33-36  class_labels[b] - 1: "1" (target) -> 0, "2" -> 1.
StoredLabels(raw) == [i \in 1..Len(raw) |-> raw[i] - 1]

\* worker.py:8-48  On a file without the expected fields the lookup raises and
\* nothing is returned (ok is FALSE).
load_trials_one_session(contents, ctu, orig, tds, transform) ==
    LET raw1 == TakeRows(contents.EEGdata1, ctu)
        raw2 == TakeRows(contents.EEGdata2, ctu)
        t1 == IF transform # NoTransform
              THEN ApplyTransform(transform, raw1, orig)
              ELSE [data |-> raw1, fs |-> orig]
        t2 == IF transform # NoTransform
              THEN ApplyTransform(transform, raw2, orig)
              ELSE [data |-> raw2, fs |-> orig]
        final == t2.fs
        labels1 == StoredLabels(contents.class_labels[1])
        labels2 == StoredLabels(contents.class_labels[2])
        b1 == BlockTrials(t1.data, contents.trigger_positions[1], labels1, orig, final, tds)
        b2 == BlockTrials(t2.data, contents.trigger_positions[2], labels2, orig, final, tds)
    IN  [ok |-> contents.ok,
         trial_data |-> IF contents.ok THEN b1.trial_data \o b2.trial_data ELSE <<>>,
         trial_labels |-> IF contents.ok THEN b1.trial_labels \o b2.trial_labels ELSE <<>>]

\* ------------------------------------------------------------ constructor
\* thu.py:62-71  output shape and final rate, from the all-ones dummy trial.
Construct(ms, transform, download, verify, force) ==
    LET dummy == View(<<0, 0>>, PyRange(0, n_channels), 0, 1,
                      DurationSamples(ms, original_sample_rate_hz))
        out == IF transform # NoTransform
               THEN ApplyTransform(transform, dummy, original_sample_rate_hz)
               ELSE [data |-> dummy, fs |-> original_sample_rate_hz]
        shape == IF transform # NoTransform
                 THEN Shape(out.data)
                 ELSE <<n_channels, DurationSamples(ms, out.fs)>>
    IN  [trial_duration_ms |-> ms,
         transform |-> transform,
         download |-> download,
         verify_sha256 |-> verify,
         force_extract |-> force,
         final_sample_rate_hz |-> out.fs,
         output_shape |-> shape,
         trial_duration_samples |-> shape[2]]

\* ------------------------------------------------------------ file system
\* files.py:3-19  the manifest: loose files first, then the archives.
NumZips == (NumSubjects + SubjectsPerFolder - 1) \div SubjectsPerFolder
ZIP_FILES == [z \in 1..NumZips |-> NumLooseFiles + z]
ALL_FILES == [f \in 1..(NumLooseFiles + NumZips) |-> f]
\* files.py:22-30
WHICH_FOLDER_EACH_SUBJECT(subj) == ((subj - 1) \div SubjectsPerFolder) + 1

NoFile == [exists |-> FALSE]
FileOf(bytes) == [exists |-> TRUE, bytes |-> bytes]

\* utils.py:33-39  hashlib.sha256(...).hexdigest(), taken as collision-free.
file_sha256hash(file) == [hex |-> file.bytes, cut |-> FALSE]

\* The checksum the manifest lists for a raw file (files.py:3-19).
ManifestSum(f) == [hex |-> "good", cut |-> FALSE]

\* As verify_file, comparing the digest also when verification is off.
verify_file_always_hashing(file, sha256sum, verify_sha256) ==
    IF ~file.exists THEN FALSE
    ELSE file_sha256hash(file) = sha256sum

\* utils.py:42-47
verify_file(file, sha256sum, verify_sha256) ==
    IF ~file.exists THEN FALSE
    ELSE IF ~verify_sha256 THEN TRUE
    ELSE file_sha256hash(file) = sha256sum

\* np.save(path, arr): the .npy bytes (header with dtype and shape, then body).
NpySave(arr, dtype, shape) ==
    FileOf([dtype |-> dtype, shape |-> shape, body |-> arr, damage |-> "none"])
\* np.load(path): fails on a truncated file; a flipped body byte yields an
\* array that differs from the saved one in that element.
NpyLoadable(file) == file.exists /\ file.bytes.damage # "truncated"
NpyLoad(file) == [arr |-> file.bytes.body, damaged |-> file.bytes.damage = "flipped"]

\* Path.write_text(digest) and Path.read_text()
WriteText(digest) == FileOf(digest)
ReadText(file) == file.bytes

\* A file cut short by a crash in the middle of the write.
Truncated(file) ==
    IF "damage" \in DOMAIN file.bytes
    THEN FileOf([file.bytes EXCEPT !.damage = "truncated"])
    ELSE FileOf([file.bytes EXCEPT !.cut = TRUE])

\* One byte of the body of an .npy file changed from outside.
Flipped(file) == FileOf([file.bytes EXCEPT !.damage = "flipped"])

EmptyEntry == [data |-> NoFile, data_sha |-> NoFile, labels |-> NoFile, labels_sha |-> NoFile]
CacheFileNames == {"data", "data_sha", "labels", "labels_sha"}

\* --------------------------------------------------- extraction, as values
\* np.empty: the allocation's content is whatever memory held; Uninit stands
\* for a slot no assignment has reached.
Uninit == View(<<0, 0>>, <<>>, 0, 0, 0)
UninitLabel == -1

\* thu.py:189-195  worker_fn = partial(load_trials_one_session, ...) applied to
\* session k, whose file is of kind `kind`, for the object with fields c.
ParseSession(k, kind, c) ==
    load_trials_one_session(loadmat(k, kind), channels_to_use,
                            original_sample_rate_hz, c.trial_duration_samples,
                            c.transform)

\* As AssignSlice, the region starting one row early.
AssignSliceOneEarly(arr, c, vals) ==
    [i \in 1..Len(arr) |->
        IF i > c - 1 /\ i <= c - 1 + Len(vals) THEN vals[i - (c - 1)] ELSE arr[i]]

\* arr[cursor : cursor + len(vals)] = vals
AssignSlice(arr, c, vals) ==
    [i \in 1..Len(arr) |->
        IF i > c /\ i <= c + Len(vals) THEN vals[i - c] ELSE arr[i]]

\* The slice assignment raises ValueError unless the slice holds as many
\* slots as there are values and every value has the shape of a slot.
DataFits(c, vals, shape) ==
    /\ c + Len(vals) <= n_trials
    /\ \A i \in 1..Len(vals) : Shape(vals[i]) = shape
LabelsFit(c, vals) == c + Len(vals) <= n_trials

\* As ConsumeOutcome, with a failed parse skipped instead of re-raised.
ConsumeOutcomeSkipFailed(r, c, shape) ==
    IF ~r.ok THEN "written"
    ELSE IF ~DataFits(c, r.trial_data, shape) THEN "raise"
    ELSE IF ~LabelsFit(c, r.trial_labels) THEN "raise_after_data"
    ELSE "written"

\* thu.py:197-206  what one iteration of the loop does with a result: the
\* worker's exception is re-raised by the iterator, a slice assignment that
\* does not fit raises ValueError, otherwise both arrays are written.
ConsumeOutcome(r, c, shape) ==
    IF ~r.ok THEN "raise"
    ELSE IF ~DataFits(c, r.trial_data, shape) THEN "raise"
    ELSE IF ~LabelsFit(c, r.trial_labels) THEN "raise_after_data"
    ELSE "written"

RECURSIVE SeqExtract(_, _, _)
\* thu.py:184-206 run by a single worker: the cursor and the arrays after the
\* sessions 1..n have been parsed and written one after the other.
SeqExtract(n, kinds, c) ==
    IF n = 0
    THEN [cursor |-> 0,
          data |-> [i \in 1..n_trials |-> Uninit],
          labels |-> [i \in 1..n_trials |-> UninitLabel]]
    ELSE LET s == SeqExtract(n - 1, kinds, c)
             r == ParseSession(n, kinds[n], c)
         IN  [cursor |-> s.cursor + Len(r.trial_data),
              data |-> AssignSlice(s.data, s.cursor, r.trial_data),
              labels |-> AssignSlice(s.labels, s.cursor, r.trial_labels)]

SavePhases == <<"save_data", "save_data_sha", "save_labels", "save_labels_sha">>
SaveTarget == [save_data |-> "data", save_data_sha |-> "data_sha",
               save_labels |-> "labels", save_labels_sha |-> "labels_sha"]

\* As SaveContent, the label sidecar holding the digest of the data file.
SaveContentDataDigestTwice(phase, entry, d, l, shape) ==
    CASE phase = "save_data" -> NpySave(d, "float32", <<n_trials>> \o shape)
      [] phase = "save_data_sha" -> WriteText(file_sha256hash(entry.data))
      [] phase = "save_labels" -> NpySave(l, "int", <<n_trials>>)
      [] phase = "save_labels_sha" -> WriteText(file_sha256hash(entry.data))

\* thu.py:211,214,219,222  the file each of the four writes produces, given
\* the cache files as they are and the arrays d and l.
SaveContent(phase, entry, d, l, shape) ==
    CASE phase = "save_data" -> NpySave(d, "float32", <<n_trials>> \o shape)
      [] phase = "save_data_sha" -> WriteText(file_sha256hash(entry.data))
      [] phase = "save_labels" -> NpySave(l, "int", <<n_trials>>)
      [] phase = "save_labels_sha" -> WriteText(file_sha256hash(entry.labels))

\* As NextPhase, returning once the label file is written.
NextPhaseReturnEarly(phase) ==
    CASE phase = "save_data" -> "save_data_sha"
      [] phase = "save_data_sha" -> "save_labels"
      [] phase = "save_labels" -> "returned"
      [] phase = "save_labels_sha" -> "returned"

\* thu.py:208-223  the writes in program order.
NextPhase(phase) ==
    CASE phase = "save_data" -> "save_data_sha"
      [] phase = "save_data_sha" -> "save_labels"
      [] phase = "save_labels" -> "save_labels_sha"
      [] phase = "save_labels_sha" -> "returned"

RECURSIVE SaveAll(_, _, _, _, _)
\* The cache files after the writes from `phase` on have all been made.
SaveAll(phase, entry, d, l, shape) ==
    IF phase = "returned" THEN entry
    ELSE SaveAll(NextPhase(phase),
                 [entry EXCEPT ![SaveTarget[phase]] = SaveContent(phase, entry, d, l, shape)],
                 d, l, shape)

\* ------------------------------------------------------------------ state
VARIABLES
    raw,        \* manifest file -> file in self.dir ("good" or "bad" bytes)
    folders,    \* archive -> "absent" | "full" | "partial": its target directory
    mat,        \* session index -> what the session file in the archive holds
    cache,      \* trial_duration_ms -> the four cache files
    run,        \* number of dataset objects constructed so far
    cfg,        \* the fields __init__ sets on the current object
    pc,         \* where get_data is
    idx,        \* loop position in _check_download / _decompress
    fetched,    \* manifest file -> number of download_url calls in this run
    done,       \* session indices whose worker call has finished
    results,    \* session index -> what the worker returned
    delivered,  \* session indices whose result the coordinator has consumed
    cursor,     \* thu.py:196
    data,       \* thu.py:184
    labels,     \* thu.py:185
    ret,        \* what _extract_trials returned
    path,       \* "none" | "hit" | "miss": the branch _extract_trials took
    written,    \* cache files this run has written
    prev,       \* how the previous run ended and what it returned
    tamperedAt, \* the run after which a cache file was changed from outside
    call        \* a direct call of one of the package's functions, with its result

vars == <<raw, folders, mat, cache, run, cfg, pc, idx, fetched, done, results,
          delivered, cursor, data, labels, ret, path, written, prev,
          tamperedAt, call>>

\* The variables of get_data's run.
runVars == <<raw, folders, mat, cache, run, cfg, pc, idx, fetched, done, results,
             delivered, cursor, data, labels, ret, path, written, prev,
             tamperedAt>>

\* No direct call is under way.
NoCall == [fn |-> "none", arg |-> <<>>, applied |-> FALSE, object |-> <<>>, out |-> <<>>]

fsVars == <<raw, folders, mat, cache>>
poolVars == <<done, results, delivered, cursor, data, labels>>

SessionIds == 1..NumSessions
Ended == {"idle", "returned", "raised", "crashed"}

NoResult == [ok |-> FALSE, trial_data |-> <<>>, trial_labels |-> <<>>]
NoRet == [data |-> <<>>, labels |-> <<>>, data_damaged |-> FALSE, labels_damaged |-> FALSE]
Ret(d, l) == [data |-> d, labels |-> l, data_damaged |-> FALSE, labels_damaged |-> FALSE]

FreshPool ==
    /\ done' = {}
    /\ results' = [k \in SessionIds |-> NoResult]
    /\ delivered' = {}
    /\ cursor' = 0
    /\ data' = <<>>
    /\ labels' = <<>>

\* The directory the runs start from: every manifest file downloaded intact.
RawInit == {[f \in DOMAIN ALL_FILES |-> "good"]}
RawFile(s) == IF s = "absent" THEN NoFile ELSE FileOf(s)

\* Constructor argument download: the files are in place, so it stays off.
DownloadChoices == {FALSE}

\* Session files: at most one is not "ok".
MatInit ==
    {m \in [SessionIds -> MatKinds] :
        Cardinality({k \in SessionIds : m[k] # "ok"}) <= 1}

\* The cache the first run finds: nothing, or, over intact session files, the
\* complete entry an earlier build with one of the transforms has left.
CacheInit(kinds) ==
    {[ms \in TrialDurationChoices |-> EmptyEntry]}
    \cup
    IF \A k \in SessionIds : kinds[k] = "ok"
    THEN {[ms \in TrialDurationChoices |->
             LET c == Construct(ms, t, FALSE, TRUE, FALSE)
                 b == SeqExtract(NumSessions, kinds, c)
             IN  SaveAll("save_data", EmptyEntry, b.data, b.labels, c.output_shape)] :
          t \in TransformChoices}
    ELSE {}

Init ==
    /\ raw \in {[f \in DOMAIN r |-> RawFile(r[f])] : r \in RawInit}
    /\ folders \in {[z \in 1..NumZips |-> c] : c \in {"absent", "full"}}
    /\ mat \in MatInit
    /\ cache \in CacheInit(mat)
    /\ run = 0
    /\ cfg = Construct(500, NoTransform, FALSE, TRUE, FALSE)
    /\ pc = "idle"
    /\ idx = 1
    /\ fetched = [f \in DOMAIN ALL_FILES |-> 0]
    /\ done = {}
    /\ results = [k \in SessionIds |-> NoResult]
    /\ delivered = {}
    /\ cursor = 0
    /\ data = <<>>
    /\ labels = <<>>
    /\ ret = NoRet
    /\ path = "none"
    /\ written = {}
    /\ prev = [pc |-> "idle", path |-> "none", ret |-> NoRet, ms |-> 0]
    /\ tamperedAt = -1
    /\ call = NoCall

\* thu.py:23-71 and the call of get_data (thu.py:73-76): a new object on the
\* same directory.
NewDataset(downloads) ==
    /\ UNCHANGED call
    /\ pc \in Ended
    /\ run < MaxRuns
    /\ \E ms \in TrialDurationChoices, t \in TransformChoices, dl \in downloads,
          vf \in BOOLEAN, fe \in BOOLEAN :
          cfg' = Construct(ms, t, dl, vf, fe)
    /\ run' = run + 1
    /\ prev' = [pc |-> pc, path |-> path, ret |-> ret, ms |-> cfg.trial_duration_ms]
    /\ pc' = "check_download"
    /\ idx' = 1
    /\ fetched' = [f \in DOMAIN ALL_FILES |-> 0]
    /\ ret' = NoRet
    /\ path' = "none"
    /\ written' = {}
    /\ FreshPool
    /\ UNCHANGED <<fsVars, tamperedAt>>

Raise ==
    /\ pc' = "raised"

\* ------------------------------------------------------- _check_download
\* What download_url can do to the output path (utils.py:11-30): write the
\* right bytes, write wrong bytes, fail after opening the file (HTTP error,
\* the file is left empty), or fail before opening it (no connection).
DownloadOutcomes == {"good", "bad", "http_error", "no_connection"}

\* As CheckDownload, going on to the next file after a fetch without
\* verifying what was fetched.
CheckDownloadNoRecheck ==
    /\ UNCHANGED call
    /\ pc = "check_download"
    /\ LET f == ALL_FILES[idx]
           next == IF idx = Len(ALL_FILES)
                   THEN /\ pc' = "decompress"
                        /\ idx' = 1
                   ELSE /\ pc' = "check_download"
                        /\ idx' = idx + 1
       IN  IF verify_file(raw[f], ManifestSum(f), cfg.verify_sha256)
           THEN /\ next
                /\ UNCHANGED <<raw, fetched>>
           ELSE IF cfg.download
           THEN \E o \in DownloadOutcomes :
                   /\ fetched' = [fetched EXCEPT ![f] = @ + 1]
                   /\ raw' = [raw EXCEPT ![f] =
                                IF o = "no_connection" THEN @
                                ELSE IF o = "http_error" THEN FileOf("bad")
                                ELSE FileOf(o)]
                   /\ IF o \in {"http_error", "no_connection"}
                      THEN Raise /\ UNCHANGED idx
                      ELSE next
           ELSE /\ Raise
                /\ UNCHANGED <<raw, fetched, idx>>
    /\ UNCHANGED <<folders, mat, cache, run, cfg, poolVars, ret, path, written,
                   prev, tamperedAt>>

\* thu.py:89-100  one iteration of the loop over ALL_FILES_AND_SHA256SUMS.
CheckDownload ==
    /\ UNCHANGED call
    /\ pc = "check_download"
    /\ LET f == ALL_FILES[idx]
           next == IF idx = Len(ALL_FILES)
                   THEN /\ pc' = "decompress"
                        /\ idx' = 1
                   ELSE /\ pc' = "check_download"
                        /\ idx' = idx + 1
       IN  IF verify_file(raw[f], ManifestSum(f), cfg.verify_sha256)
           THEN /\ next
                /\ UNCHANGED <<raw, fetched>>
           ELSE IF cfg.download
           THEN \E o \in DownloadOutcomes :
                   /\ fetched' = [fetched EXCEPT ![f] = @ + 1]
                   /\ raw' = [raw EXCEPT ![f] =
                                IF o = "no_connection" THEN @
                                ELSE IF o = "http_error" THEN FileOf("bad")
                                ELSE FileOf(o)]
                   /\ IF o \in {"http_error", "no_connection"}
                      THEN Raise /\ UNCHANGED idx
                      ELSE IF verify_file(raw'[f], ManifestSum(f), cfg.verify_sha256)
                      THEN next
                      ELSE Raise /\ UNCHANGED idx
           ELSE /\ Raise
                /\ UNCHANGED <<raw, fetched, idx>>
    /\ UNCHANGED <<folders, mat, cache, run, cfg, poolVars, ret, path, written,
                   prev, tamperedAt>>

\* ------------------------------------------------------------ _decompress
\* As SkipArchive, not looking at force.
SkipArchiveUnforced(force, outpath) == outpath # "absent"

\* thu.py:107  the archive is skipped when its target exists and force is off.
SkipArchive(force, outpath) == ~force /\ outpath # "absent"

\* thu.py:103-114  one iteration of the loop over ZIP_FILES_AND_SHA256SUMS;
\* `after` is where the caller goes on when the loop ends.  unzip fails on an
\* archive that is missing or has wrong bytes (check=True raises); it may have
\* created or partly filled a target that did not exist, and takes nothing
\* away from one that did.
DecompressIter(force, after) ==
    LET z == idx
        next == IF idx = NumZips
                THEN /\ pc' = after
                     /\ idx' = 1
                ELSE /\ pc' = "decompress"
                     /\ idx' = idx + 1
    IN  IF SkipArchive(force, folders[z])
        THEN /\ next
             /\ UNCHANGED folders
        ELSE IF raw[ZIP_FILES[z]].exists /\ raw[ZIP_FILES[z]].bytes = "good"
        THEN /\ folders' = [folders EXCEPT ![z] = "full"]
             /\ next
        ELSE /\ \E left \in (IF folders[z] = "absent"
                             THEN {"absent", "partial"}
                             ELSE {folders[z]}) :
                   folders' = [folders EXCEPT ![z] = left]
             /\ Raise
             /\ UNCHANGED idx

\* thu.py:79  self._decompress() as get_data calls it, with force=False.
Decompress ==
    /\ UNCHANGED call
    /\ pc = "decompress"
    /\ DecompressIter(FALSE, "extract")
    /\ UNCHANGED <<raw, mat, cache, run, cfg, fetched, poolVars, ret, path,
                   written, prev, tamperedAt>>

\* --------------------------------------------------------- _extract_trials
\* As can_reuse, without the check of the label file.
can_reuse_data_only(entry, verify_sha256) ==
    IF ~entry.data_sha.exists \/ ~entry.labels_sha.exists THEN FALSE
    ELSE IF ~verify_file(entry.data, ReadText(entry.data_sha), verify_sha256) THEN FALSE
    ELSE TRUE

\* thu.py:155-170
can_reuse(entry, verify_sha256) ==
    IF ~entry.data_sha.exists \/ ~entry.labels_sha.exists THEN FALSE
    ELSE IF ~verify_file(entry.data, ReadText(entry.data_sha), verify_sha256) THEN FALSE
    ELSE IF ~verify_file(entry.labels, ReadText(entry.labels_sha), verify_sha256) THEN FALSE
    ELSE TRUE

\* As TakeCached, reusing only a data file of the current object's shape.
TakeCachedOfOwnShape(force_extract, entry, verify_sha256) ==
    /\ ~force_extract
    /\ can_reuse(entry, verify_sha256)
    /\ entry.data.bytes.shape = <<n_trials>> \o cfg.output_shape

\* As TakeCached, not looking at force_extract.
TakeCachedUnforced(force_extract, entry, verify_sha256) ==
    can_reuse(entry, verify_sha256)

\* thu.py:172  the condition of the cache-hit branch.
TakeCached(force_extract, entry, verify_sha256) ==
    ~force_extract /\ can_reuse(entry, verify_sha256)

\* As ExtractTrials, going on to the extraction after taking the cached
\* arrays.
ExtractTrialsNoEarlyReturn ==
    /\ UNCHANGED call
    /\ pc = "extract"
    /\ LET entry == cache[cfg.trial_duration_ms]
       IN  /\ path' = IF TakeCached(cfg.force_extract, entry, cfg.verify_sha256)
                      THEN "hit" ELSE "miss"
           /\ pc' = "pool"
           /\ data' = [i \in 1..n_trials |-> Uninit]
           /\ labels' = [i \in 1..n_trials |-> UninitLabel]
           /\ cursor' = 0
           /\ UNCHANGED <<done, results, delivered, ret>>
    /\ UNCHANGED <<fsVars, run, cfg, idx, fetched, written, prev, tamperedAt>>

\* thu.py:172-185  the reuse check; on a hit both arrays are loaded and
\* returned, on a miss the arrays are allocated and the pool is opened.
ExtractTrials ==
    /\ UNCHANGED call
    /\ pc = "extract"
    /\ LET entry == cache[cfg.trial_duration_ms]
       IN  IF TakeCached(cfg.force_extract, entry, cfg.verify_sha256)
           THEN /\ path' = "hit"
                /\ IF NpyLoadable(entry.data) /\ NpyLoadable(entry.labels)
                   THEN /\ ret' = [data |-> NpyLoad(entry.data).arr,
                                   labels |-> NpyLoad(entry.labels).arr,
                                   data_damaged |-> NpyLoad(entry.data).damaged,
                                   labels_damaged |-> NpyLoad(entry.labels).damaged]
                        /\ pc' = "returned"
                   ELSE /\ Raise
                        /\ UNCHANGED ret
                /\ UNCHANGED poolVars
           ELSE /\ path' = "miss"
                /\ pc' = "pool"
                /\ data' = [i \in 1..n_trials |-> Uninit]
                /\ labels' = [i \in 1..n_trials |-> UninitLabel]
                /\ cursor' = 0
                /\ UNCHANGED <<done, results, delivered, ret>>
    /\ UNCHANGED <<fsVars, run, cfg, idx, fetched, written, prev, tamperedAt>>

\* ------------------------------------------------------------------- pool
\* The session file a worker opens: missing when its folder was not fully
\* unpacked, so that loadmat raises.
FileKind(k) ==
    IF folders[WHICH_FOLDER_EACH_SUBJECT(mat_files[k].subj)] = "full"
    THEN mat[k]
    ELSE "malformed"

\* What the worker returns for session k in the current run.
worker_fn(k) == ParseSession(k, FileKind(k), cfg)

\* Pool with chunksize=1: the tasks are handed out in list order, one to each
\* free worker, so the sessions being parsed are the first n_processes
\* unfinished ones.
Running(dn) ==
    {k \in SessionIds \ dn :
        Cardinality({j \in SessionIds \ dn : j < k}) < NumWorkers}

\* A worker finishes its session, in any order among the running ones.
FinishTask ==
    /\ UNCHANGED call
    /\ pc = "pool"
    /\ \E k \in Running(done) :
          /\ done' = done \cup {k}
          /\ results' = [results EXCEPT ![k] = worker_fn(k)]
    /\ UNCHANGED <<fsVars, run, cfg, pc, idx, fetched, delivered, cursor,
                   data, labels, ret, path, written, prev, tamperedAt>>

\* As imap_unordered would: any finished result that has not been yielded.
ImapUnordered(dn, dl) == dn \ dl

\* As ImapNext, a result being yielded only while no later session has
\* finished.
ImapNoOvertaking(dn, dl) ==
    {k \in dn \ dl : /\ \A j \in SessionIds : j < k => j \in dl
                     /\ \A j \in SessionIds : j > k => j \notin dn}

\* thu.py:199  pool.imap: the results the iterator can yield next, which is
\* the result of the first session not yet yielded, once it is there.
ImapNext(dn, dl) ==
    {k \in dn \ dl : \A j \in SessionIds : j < k => j \in dl}

\* thu.py:197-206  one iteration of the loop over the imap iterator: the
\* worker's exception is re-raised here, the with-block terminates the pool.
\* When the iterator is exhausted the loop ends and the saving starts.
Consume ==
    /\ UNCHANGED call
    /\ pc = "pool"
    /\ \E k \in ImapNext(done, delivered) :
        LET r == results[k]
            o == ConsumeOutcome(r, cursor, cfg.output_shape)
        IN  /\ delivered' = delivered \cup {k}
            /\ data' = IF o \in {"written", "raise_after_data"}
                       THEN AssignSlice(data, cursor, r.trial_data)
                       ELSE data
            /\ labels' = IF o = "written"
                         THEN AssignSlice(labels, cursor, r.trial_labels)
                         ELSE labels
            /\ cursor' = IF o = "written" THEN cursor + Len(r.trial_data) ELSE cursor
            /\ pc' = IF o # "written" THEN "raised"
                     ELSE IF delivered' = SessionIds THEN "save_data"
                     ELSE "pool"
    /\ results' = [k \in SessionIds |-> IF k \in delivered' THEN NoResult ELSE results[k]]
    /\ UNCHANGED <<fsVars, run, cfg, idx, fetched, done, ret, path, written, prev,
                   tamperedAt>>

\* ------------------------------------------------------------- persistence
\* thu.py:211-223  one of the four writes; after the last one the arrays are
\* returned.
Save ==
    /\ UNCHANGED call
    /\ pc \in {SavePhases[i] : i \in DOMAIN SavePhases}
    /\ LET ms == cfg.trial_duration_ms
       IN  cache' = [cache EXCEPT ![ms][SaveTarget[pc]] = SaveContent(pc, cache[ms], data, labels, cfg.output_shape)]
    /\ written' = written \cup {SaveTarget[pc]}
    /\ pc' = NextPhase(pc)
    /\ ret' = IF pc' = "returned" THEN Ret(data, labels) ELSE ret
    /\ UNCHANGED <<raw, folders, mat, run, cfg, idx, fetched, poolVars, path, prev,
                   tamperedAt>>

\* The process dies between two of the four writes.  The runs of one
\* behaviour are not killed twice in a row.
CrashBetweenWrites ==
    /\ UNCHANGED call
    /\ prev.pc # "crashed"
    /\ pc \in {SavePhases[i] : i \in DOMAIN SavePhases} \ {"save_data"}
    /\ pc' = "crashed"
    /\ UNCHANGED <<fsVars, run, cfg, idx, fetched, poolVars, ret, path, written,
                   prev, tamperedAt>>

\* The process dies in the middle of a write: the file is left cut short.
CrashDuringWrite ==
    /\ UNCHANGED call
    /\ prev.pc # "crashed"
    /\ pc \in {SavePhases[i] : i \in DOMAIN SavePhases}
    /\ LET ms == cfg.trial_duration_ms
       IN  cache' = [cache EXCEPT ![ms][SaveTarget[pc]] =
                        Truncated(SaveContent(pc, cache[ms], data, labels, cfg.output_shape))]
    /\ written' = written \cup {SaveTarget[pc]}
    /\ pc' = "crashed"
    /\ UNCHANGED <<raw, folders, mat, run, cfg, idx, fetched, poolVars, ret, path,
                   prev, tamperedAt>>

\* ------------------------------------------------------------- environment
\* Between two runs, once: a byte of a cached .npy file is changed, or one of
\* the four cache files is deleted.
Tamper ==
    /\ UNCHANGED call
    /\ pc \in Ended
    /\ run >= 1
    /\ run < MaxRuns
    /\ tamperedAt = -1
    /\ \E ms \in TrialDurationChoices, f \in CacheFileNames :
          /\ cache[ms][f].exists
          /\ \/ cache' = [cache EXCEPT ![ms][f] = NoFile]
             \/ /\ f \in {"data", "labels"}
                /\ cache[ms][f].bytes.damage = "none"
                /\ cache' = [cache EXCEPT ![ms][f] = Flipped(@)]
    /\ tamperedAt' = run
    /\ UNCHANGED <<raw, folders, mat, run, cfg, pc, idx, fetched, poolVars, ret,
                   path, written, prev>>

Next ==
    \/ NewDataset(DownloadChoices)
    \/ CheckDownload
    \/ Decompress
    \/ ExtractTrials
    \/ FinishTask
    \/ Consume
    \/ Save
    \/ CrashBetweenWrites
    \/ CrashDuringWrite
    \/ Tamper

Spec == Init /\ [][Next]_vars

\* ===================================== get_data under fair scheduling
\* get_data in a process that is not killed, over files nobody else touches.
\* Every started worker call returns or raises (the operating system runs
\* the pool's processes), and the coordinator, the only thread of the main
\* process, goes on whenever its next statement can run.
FairNext ==
    \/ NewDataset(DownloadChoices)
    \/ CheckDownload
    \/ Decompress
    \/ ExtractTrials
    \/ FinishTask
    \/ Consume
    \/ Save

\* FinishTask as it shows on `done`: a step of FairNext that adds a running
\* session to `done` during the loop is a FinishTask step, and one is possible
\* exactly when FinishTask is.
TaskReturns ==
    /\ pc = "pool"
    /\ \E k \in Running(done) : done' = done \cup {k}

Fairness ==
    /\ WF_done(TaskReturns)
    /\ WF_vars(Consume)
    /\ WF_vars(Save)

FairSpec == Init /\ [][FairNext]_vars /\ Fairness

\* ================================================= get_data with download
\* get_data over a directory whose raw files may be missing or damaged, with
\* download on or off; the session files are intact and the process is not
\* killed.

\* Raw files: at most one of them is missing or has wrong bytes.
RawInitAny ==
    {r \in [DOMAIN ALL_FILES -> {"absent", "good", "bad"}] :
        Cardinality({f \in DOMAIN ALL_FILES : r[f] # "good"}) <= 1}

\* Constructor argument download.
DownloadAny == BOOLEAN

GetDataInit ==
    /\ raw \in {[f \in DOMAIN r |-> RawFile(r[f])] : r \in RawInitAny}
    /\ folders \in [1..NumZips -> {"absent", "full"}]
    /\ mat = [k \in SessionIds |-> "ok"]
    /\ cache \in CacheInit(mat)
    /\ run = 0
    /\ cfg = Construct(500, NoTransform, FALSE, TRUE, FALSE)
    /\ pc = "idle"
    /\ idx = 1
    /\ fetched = [f \in DOMAIN ALL_FILES |-> 0]
    /\ done = {}
    /\ results = [k \in SessionIds |-> NoResult]
    /\ delivered = {}
    /\ cursor = 0
    /\ data = <<>>
    /\ labels = <<>>
    /\ ret = NoRet
    /\ path = "none"
    /\ written = {}
    /\ prev = [pc |-> "idle", path |-> "none", ret |-> NoRet, ms |-> 0]
    /\ tamperedAt = -1
    /\ call = NoCall

GetDataNext ==
    \/ NewDataset(DownloadAny)
    \/ CheckDownload
    \/ Decompress
    \/ ExtractTrials
    \/ FinishTask
    \/ Consume
    \/ Save

GetDataSpec == GetDataInit /\ [][GetDataNext]_vars

\* ============================================================ direct calls
\* The package's functions called on their own, outside get_data: the inputs
\* are drawn in the initial state and one step applies the function.

\* thu.py:146  the onset the docstring quotes (trigger0 = 6829).
ExampleOnset == 6829

\* Raw onsets tried: a range from 0, one second of signal, the quoted onset.
OnsetChoices == (0..MaxOnset) \cup {original_sample_rate_hz, ExampleOnset}

\* Transforms tried: None and Downsample(k); 250 is a multiple of 1, 2 and 5
\* and not of 3.
FactorChoices == {NoTransform, 1, 2, 3, 5}

\* A session file with one trigger per block at raw onset t, the signal going
\* on for a second after it.
Recording(t) ==
    [ok |-> TRUE,
     EEGdata1 |-> View(<<1, 1>>, PyRange(0, NumRawChannels), 0, 1, t + original_sample_rate_hz),
     EEGdata2 |-> View(<<1, 2>>, PyRange(0, NumRawChannels), 0, 1, t + original_sample_rate_hz),
     trigger_positions |-> [b \in 1..NumBlocks |-> <<t>>],
     class_labels |-> [b \in 1..NumBlocks |-> <<b>>]]

\* Files and digests verify_file is tried on.
FileChoices == {NoFile, FileOf("good"), FileOf("bad")}
DigestChoices == {file_sha256hash(FileOf("good")), file_sha256hash(FileOf("bad"))}

ParseCalls ==
    {[fn |-> "parse", arg |-> <<k, t>>, applied |-> FALSE, object |-> <<>>,
      out |-> <<>>] :
        k \in FactorChoices, t \in OnsetChoices}
VerifyCalls ==
    {[fn |-> "verify_file", arg |-> <<f, d, v>>, applied |-> FALSE,
      object |-> <<>>, out |-> <<>>] :
        f \in FileChoices, d \in DigestChoices, v \in BOOLEAN}

FnInit ==
    /\ raw = [f \in DOMAIN ALL_FILES |-> FileOf("good")]
    /\ folders = [z \in 1..NumZips |-> "full"]
    /\ mat = [k \in SessionIds |-> "ok"]
    /\ cache = [ms \in TrialDurationChoices |-> EmptyEntry]
    /\ run = 0
    /\ cfg = Construct(500, NoTransform, FALSE, TRUE, FALSE)
    /\ pc = "idle"
    /\ idx = 1
    /\ fetched = [f \in DOMAIN ALL_FILES |-> 0]
    /\ done = {}
    /\ results = [k \in SessionIds |-> NoResult]
    /\ delivered = {}
    /\ cursor = 0
    /\ data = <<>>
    /\ labels = <<>>
    /\ ret = NoRet
    /\ path = "none"
    /\ written = {}
    /\ prev = [pc |-> "idle", path |-> "none", ret |-> NoRet, ms |-> 0]
    /\ tamperedAt = -1
    /\ call \in ParseCalls \cup VerifyCalls

\* worker.py:8-47 called as _extract_trials calls it (thu.py:189-195) for an
\* object constructed with transform k, on a file with onset t.
CallParse ==
    /\ call.fn = "parse"
    /\ ~call.applied
    /\ LET c == Construct(500, call.arg[1], FALSE, TRUE, FALSE)
       IN  call' = [call EXCEPT
                       !.applied = TRUE,
                       !.object = c,
                       !.out = load_trials_one_session(
                                   Recording(call.arg[2]), channels_to_use,
                                   original_sample_rate_hz,
                                   c.trial_duration_samples, c.transform)]
    /\ UNCHANGED runVars

\* utils.py:42-47
CallVerifyFile ==
    /\ call.fn = "verify_file"
    /\ ~call.applied
    /\ call' = [call EXCEPT
                   !.applied = TRUE,
                   !.out = verify_file(call.arg[1], call.arg[2], call.arg[3])]
    /\ UNCHANGED runVars

FnNext == CallParse \/ CallVerifyFile

FnSpec == FnInit /\ [][FnNext]_vars

\* ------------------------------------------------- _decompress on its own
\* _decompress(force) called directly, up to MaxRuns times in a row, over any
\* state of the archives and their target directories.

\* Archives: at most one is missing or has wrong bytes.
DecompressInit ==
    /\ raw \in {[f \in DOMAIN r |-> RawFile(r[f])] : r \in RawInitAny}
    /\ folders \in [1..NumZips -> {"absent", "partial", "full"}]
    /\ mat = [k \in SessionIds |-> "ok"]
    /\ cache = [ms \in TrialDurationChoices |-> EmptyEntry]
    /\ run = 0
    /\ cfg = Construct(500, NoTransform, FALSE, TRUE, FALSE)
    /\ pc = "idle"
    /\ idx = 1
    /\ fetched = [f \in DOMAIN ALL_FILES |-> 0]
    /\ done = {}
    /\ results = [k \in SessionIds |-> NoResult]
    /\ delivered = {}
    /\ cursor = 0
    /\ data = <<>>
    /\ labels = <<>>
    /\ ret = NoRet
    /\ path = "none"
    /\ written = {}
    /\ prev = [pc |-> "idle", path |-> "none", ret |-> NoRet, ms |-> 0]
    /\ tamperedAt = -1
    /\ call = NoCall

\* thu.py:102  the call: arg is <<force, the target directories as the call
\* finds them, how the call before it ended>>; out lists the archives unzip is
\* run on.
CallDecompress ==
    /\ pc \in {"idle", "raised"}
    /\ run < MaxRuns
    /\ \E force \in BOOLEAN :
          call' = [fn |-> "decompress",
                   arg |-> <<force, folders,
                             IF call.fn = "none" THEN "first"
                             ELSE IF pc = "raised" THEN "after_failure"
                             ELSE "after_success">>,
                   applied |-> FALSE, object |-> <<>>, out |-> <<>>]
    /\ run' = run + 1
    /\ pc' = "decompress"
    /\ idx' = 1
    /\ UNCHANGED <<raw, folders, mat, cache, cfg, fetched, poolVars, ret, path,
                   written, prev, tamperedAt>>

\* thu.py:103-114  one iteration of the loop in the direct call.
DecompressDirect ==
    /\ call.fn = "decompress"
    /\ pc = "decompress"
    /\ DecompressIter(call.arg[1], "idle")
    /\ call' = [call EXCEPT
                   !.out = IF SkipArchive(call.arg[1], folders[idx])
                           THEN @
                           ELSE Append(@, idx),
                   !.applied = (pc' = "idle")]
    /\ UNCHANGED <<raw, mat, cache, run, cfg, fetched, poolVars, ret, path,
                   written, prev, tamperedAt>>

DecompressNext == CallDecompress \/ DecompressDirect

DecompressSpec == DecompressInit /\ [][DecompressNext]_vars

\* ================================================================ claims
\* The session files as the workers of the current run find them.
Kinds == [k \in SessionIds |-> FileKind(k)]

\* The run took the miss branch and has consumed every session's result.
Extracted ==
    /\ path = "miss"
    /\ pc \in {SavePhases[i] : i \in DOMAIN SavePhases} \cup {"returned", "crashed"}

\* The run took the miss branch and its loop is running or has ended normally.
Extracting == Extracted \/ (path = "miss" /\ pc = "pool")

\* C1: whatever order the workers finish in, the coordinator consumes the
\* results in submission order (the consumed sessions are always the first n
\* of the list), and the cursor and both arrays are at every point, and so at
\* the end, those of a single worker parsing the same sessions one by one.
C1_OrderedConsumption ==
    Extracting =>
        LET n == Cardinality(delivered)
        IN  /\ delivered = 1..n
            /\ [cursor |-> cursor, data |-> data, labels |-> labels]
                   = SeqExtract(n, Kinds, cfg)

\* A later session has finished before an earlier one and the coordinator,
\* having consumed the first, waits for the second.
C1_Witness ==
    /\ pc = "pool"
    /\ delivered = {1}
    /\ 3 \in done
    /\ 2 \notin done

\* The trial in a row: its subject, session rank, block and trigger index.
RowKey(v) ==
    LET k == v.src[1]
        b == v.src[2]
    IN  <<mat_files[k].subj,
          CHOOSE r \in DOMAIN Sessions : Sessions[r] = mat_files[k].session,
          b,
          CHOOSE j \in 1..TriggersPerBlock :
              v.start = v.step * ConvertedOnset(RawOnset(b, j), original_sample_rate_hz,
                                                cfg.final_sample_rate_hz)>>

LexLess(a, b) ==
    \E p \in 1..4 : a[p] < b[p] /\ \A q \in 1..(p - 1) : a[q] = b[q]

\* C2: after extraction the rows are sorted by subject, then session (A before
\* B), then block, then trigger, and label i is the stored label of the trial
\* in row i.
C2_RowOrder ==
    Extracted =>
        /\ \A i \in 1..(n_trials - 1) : LexLess(RowKey(data[i]), RowKey(data[i + 1]))
        /\ \A i \in 1..n_trials :
              LET key == RowKey(data[i])
              IN  labels[i] = RawLabel(data[i].src[1], key[3], key[4]) - 1

\* A build under Downsample(2) has run to its end and returned.
C2_Witness ==
    /\ Extracted
    /\ pc = "returned"
    /\ cfg.transform = 2

\* The previous run was a build that died in its persistence phase, and nothing
\* else has touched the cache since.
AfterCrash ==
    /\ run >= 2
    /\ prev.pc = "crashed"
    /\ tamperedAt # run - 1

\* C3: after a build that was interrupted between or during the four writes,
\* the next run without force_extract takes the miss branch, whatever the cache
\* held before the build and whether or not checksums are verified.
C3_CrashIsMiss ==
    (AfterCrash /\ ~cfg.force_extract) => path # "hit"

\* The cache files of the current object's trial_duration_ms.
Entry == cache[cfg.trial_duration_ms]

AllFourExist(e) ==
    e.data.exists /\ e.labels.exists /\ e.data_sha.exists /\ e.labels_sha.exists

\* Each .npy file's digest is the text of its sidecar.
DigestsMatch(e) ==
    /\ file_sha256hash(e.data) = ReadText(e.data_sha)
    /\ file_sha256hash(e.labels) = ReadText(e.labels_sha)

\* The reuse decision has been taken and nothing has written to the cache
\* since, so the cache files are the ones the decision saw.
Decided == path # "none" /\ written = {} /\ tamperedAt # run

\* C4: without force_extract the cached arrays are taken exactly when all four
\* files exist and, under verification, each .npy file's digest equals its
\* sidecar's text; a data or label file with one byte changed is then loaded
\* as it is when verification is off.
C4_ReuseExactlyWhenValid ==
    (Decided /\ ~cfg.force_extract) =>
        /\ path = "hit" <=>
              IF AllFourExist(Entry)
              THEN cfg.verify_sha256 => DigestsMatch(Entry)
              ELSE FALSE
        /\ (/\ AllFourExist(Entry)
            /\ ~cfg.verify_sha256
            /\ "flipped" \in {Entry.data.bytes.damage, Entry.labels.bytes.damage}
            /\ "truncated" \notin {Entry.data.bytes.damage, Entry.labels.bytes.damage})
           => /\ pc = "returned"
              /\ ret.data = Entry.data.bytes.body
              /\ ret.labels = Entry.labels.bytes.body
              /\ ret.data_damaged = (Entry.data.bytes.damage = "flipped")
              /\ ret.labels_damaged = (Entry.labels.bytes.damage = "flipped")

\* With verification on, a data file that no longer matches its sidecar has
\* sent the run into a rebuild.
C4_Witness ==
    /\ Decided
    /\ ~cfg.force_extract
    /\ cfg.verify_sha256
    /\ AllFourExist(Entry)
    /\ Entry.data.bytes.damage = "flipped"
    /\ path = "miss"
    /\ pc = "pool"

\* C5: with force_extract the cached arrays are never taken, whatever the
\* cache holds, and a run that returns has extracted every session, written
\* all four cache files and returns the arrays it built.
C5_ForceAlwaysRebuilds ==
    cfg.force_extract =>
        /\ path # "hit"
        /\ pc = "returned" =>
              /\ written = CacheFileNames
              /\ delivered = SessionIds
              /\ ret = Ret(data, labels)
              /\ (tamperedAt # run) =>
                    Entry = SaveAll("save_data", EmptyEntry, data, labels, cfg.output_shape)

\* A forced run is rebuilding although the cache it found would have been
\* reused.
C5_Witness ==
    /\ cfg.force_extract
    /\ pc = "pool"
    /\ path = "miss"
    /\ written = {}
    /\ can_reuse(Entry, cfg.verify_sha256)

\* The previous run built and persisted the arrays for the same duration and
\* nothing has touched the cache since.
AfterBuild ==
    /\ run >= 2
    /\ prev.pc = "returned"
    /\ prev.path = "miss"
    /\ prev.ms = cfg.trial_duration_ms
    /\ tamperedAt # run - 1

\* C6: the run that follows a completed build, without force_extract, takes
\* the cached arrays and returns arrays equal to the ones the build returned,
\* with verification on or off.
C6_RoundTrip ==
    (AfterBuild /\ ~cfg.force_extract) =>
        /\ pc = "extract" => TakeCached(cfg.force_extract, Entry, cfg.verify_sha256)
        /\ path # "none" =>
              /\ path = "hit"
              /\ pc = "returned"
              /\ ret = prev.ret

\* A verified reload after a build has returned.
C6_Witness ==
    /\ AfterBuild
    /\ ~cfg.force_extract
    /\ cfg.verify_sha256
    /\ pc = "returned"
    /\ path = "hit"
    /\ Len(ret.data) = n_trials

\* The parse of session k fails in the current run.
ParseFails(k) == ~worker_fn(k).ok

\* One step of a run, seen from the caller of _extract_trials.
C7_Step ==
    /\ (pc \in {"pool", "raised"} /\ tamperedAt' = tamperedAt) =>
          /\ cache' = cache
          /\ written' = written
    /\ (pc = "pool" /\ \E k \in delivered' \ delivered : ParseFails(k)) =>
          /\ pc' = "raised"
          /\ ret' = NoRet
          /\ written' = {}
          /\ <<data', labels', cursor'>> = <<data, labels, cursor>>
    /\ (pc = "pool") => done \subseteq done'
    /\ (pc = "raised" /\ run' = run) =>
          /\ pc' = "raised"
          /\ done' = done
          /\ delivered' = delivered

\* C7: when the result of a session whose parse failed is consumed, the run
\* ends with an error and returns nothing, whatever had been consumed before;
\* after that no session is parsed or consumed again in that run, and the run
\* leaves the four cache files as it found them.
C7_AbortOnFailure == [][C7_Step]_vars

\* A run has ended with an error on a failed parse after consuming another
\* session's result.
C7_Witness ==
    /\ pc = "raised"
    /\ path = "miss"
    /\ Cardinality(delivered) >= 2
    /\ \E k \in delivered : ParseFails(k)
    /\ written = {}

\* Trials per session.
TrialsPerSession == NumBlocks * TriggersPerBlock

\* The sessions parsed and waiting to be consumed.
Waiting == {k \in done \ delivered : results[k].ok}

\* C8: every parsed session yields blocks x triggers trials and as many
\* labels, the cursor advances by that number per session, and when every
\* session has been consumed the cursor equals n_trials, the first dimension
\* of the tensor and the length of the label vector, every row being filled;
\* at the dataset's scale that is 8000 per session and 1,024,000 in all.
C8_TrialCount ==
    /\ \A k \in Waiting :
          /\ Len(results[k].trial_data) = TrialsPerSession
          /\ Len(results[k].trial_labels) = TrialsPerSession
    /\ Extracting =>
          /\ cursor = Cardinality(delivered) * TrialsPerSession
          /\ Len(data) = n_trials
          /\ Len(labels) = n_trials
    /\ Extracted =>
          /\ cursor = n_trials
          /\ NumSessions * TrialsPerSession = n_trials
          /\ \A i \in 1..n_trials : data[i] # Uninit /\ labels[i] # UninitLabel
    /\ NumBlocks * (40 * 100) = 8000
    /\ NTrials(64, 40 * 100) = 1024000
    /\ (64 * Len(Sessions)) * 8000 = NTrials(64, 40 * 100)

\* An extraction has completed while parsed results were counted on the way.
C8_Witness ==
    /\ Extracted
    /\ pc = "returned"
    /\ cursor = n_trials
    /\ cfg.transform = NoTransform

\* Position of trigger i of block b in a session's output.
TrialIndex(b, i) == (b - 1) * TriggersPerBlock + i

\* C9: in the parser's output the label of trigger i of block b is the raw
\* code minus one, is 0 or 1, and sits at the position of the trial sliced at
\* onset i of the same block; every label of the final vector is 0 or 1.
C9_Labels ==
    /\ \A k \in Waiting : \A b \in 1..NumBlocks : \A i \in 1..TriggersPerBlock :
          LET lab == results[k].trial_labels[TrialIndex(b, i)]
              tr == results[k].trial_data[TrialIndex(b, i)]
          IN  /\ RawLabel(k, b, i) \in {1, 2}
              /\ lab = RawLabel(k, b, i) - 1
              /\ lab \in {0, 1}
              /\ tr.src = <<k, b>>
              /\ tr.start = tr.step * Min(ConvertedOnset(RawOnset(b, i),
                                                         original_sample_rate_hz,
                                                         cfg.final_sample_rate_hz),
                                          (SignalLen(FileKind(k), b) + tr.step - 1) \div tr.step)
    /\ Extracted => \A i \in 1..n_trials : labels[i] \in {0, 1}

\* A parsed session with both label values waits to be consumed.
C9_Witness ==
    /\ pc = "pool"
    /\ \E k \in Waiting : {results[k].trial_labels[i] : i \in 1..TrialsPerSession} = {0, 1}

\* C10: every trial in the parser's output has the shape inferred at
\* construction from the all-ones dummy trial, also when the window of an
\* onset runs to or past the end of the signal.
C10_ShapeInference ==
    \A k \in Waiting : \A i \in 1..Len(results[k].trial_data) :
        Shape(results[k].trial_data[i]) = cfg.output_shape

\* A direct call of the parser has returned.
Parsed == call.fn = "parse" /\ call.applied
ParsedFactor == call.arg[1]
ParsedOnset == call.arg[2]
\* The trial sliced from block b by the direct call.
ParsedTrial(b) == call.out.trial_data[b]
\* The index in the transformed signal at which the trial of block b starts.
SlicedAt(b) == ParsedTrial(b).start \div ParsedTrial(b).step

\* C11: with Downsample(k), k a divisor of the original rate, the trial of a
\* raw onset t is sliced at index floor(t / k) of the transformed signal, so
\* onset 6829 with k = 2 is sliced at 3414; with no transform it is sliced at t.
C11_EvenFactorOnset ==
    Parsed => \A b \in 1..NumBlocks :
        /\ (ParsedFactor # NoTransform /\ original_sample_rate_hz % ParsedFactor = 0) =>
              /\ ParsedTrial(b).step = ParsedFactor
              /\ ParsedTrial(b).start = ParsedFactor * (ParsedOnset \div ParsedFactor)
              /\ SlicedAt(b) = ParsedOnset \div ParsedFactor
        /\ (ParsedFactor = 2 /\ ParsedOnset = ExampleOnset) => SlicedAt(b) = 3414
        /\ ParsedFactor = NoTransform =>
              /\ ParsedTrial(b).step = 1
              /\ ParsedTrial(b).start = ParsedOnset

\* The quoted onset has been parsed under Downsample(2).
C11_Witness ==
    /\ Parsed
    /\ ParsedFactor = 2
    /\ ParsedOnset = ExampleOnset
    /\ SlicedAt(1) = 3414

\* The parser was called for an object with trial_duration_ms = 500, the
\* original rate 250 Hz and no transform.
ParsedPlain ==
    /\ Parsed
    /\ ParsedFactor = NoTransform
    /\ call.object.trial_duration_ms = 500
    /\ original_sample_rate_hz = 250

\* C12 as stated: trial_duration_samples is 125 and every trial has shape
\* (61, 125).
C12_Shape61 ==
    ParsedPlain =>
        /\ call.object.trial_duration_samples = 125
        /\ call.object.output_shape = <<61, 125>>
        /\ \A b \in 1..NumBlocks : Shape(ParsedTrial(b)) = <<61, 125>>

\* C12: with trial_duration_ms = 500, 250 Hz and no transform,
\* trial_duration_samples is 125 and every trial has shape (62, 125): the 64
\* raw channels minus the two left out, 32 and 42.
C12_Shape62 ==
    ParsedPlain =>
        /\ call.object.trial_duration_samples = 125
        /\ call.object.output_shape = <<62, 125>>
        /\ n_channels = NumRawChannels - 2
        /\ \A b \in 1..NumBlocks :
              /\ Shape(ParsedTrial(b)) = <<62, 125>>
              /\ ParsedTrial(b).rows = <<[lo |-> 0, hi |-> 32], [lo |-> 33, hi |-> 42],
                                         [lo |-> 43, hi |-> 64]>>

\* A session has been parsed with no transform.
C12_Witness ==
    /\ ParsedPlain
    /\ ParsedOnset = ExampleOnset
    /\ Len(call.out.trial_data) = NumBlocks

\* A direct call of verify_file has returned.
Verified == call.fn = "verify_file" /\ call.applied

\* C13: verify_file returns false for a path that does not exist, whatever the
\* verification setting; with verification off it returns true for every
\* existing path; otherwise it returns true exactly when the digest of the
\* file equals the expected string.
C13_VerifyFile ==
    Verified =>
        LET file == call.arg[1]
            sha256sum == call.arg[2]
            verify_sha256 == call.arg[3]
        IN  /\ ~file.exists => call.out = FALSE
            /\ (file.exists /\ ~verify_sha256) => call.out = TRUE
            /\ (file.exists /\ verify_sha256) =>
                  (call.out = TRUE <=> file_sha256hash(file) = sha256sum)

\* An existing file with another digest has been accepted with verification
\* off.
C13_Witness ==
    /\ Verified
    /\ call.arg[1].exists
    /\ ~call.arg[3]
    /\ file_sha256hash(call.arg[1]) # call.arg[2]
    /\ call.out = TRUE

\* Manifest file f verifies under the current object's setting.
Verifies(f) == verify_file(raw[f], ManifestSum(f), cfg.verify_sha256)

\* While _check_download runs: the files before the current one verify, none
\* after it has been fetched, and no file has been fetched twice.
C14_State ==
    /\ \A f \in DOMAIN ALL_FILES : fetched[f] <= 1
    /\ pc = "check_download" =>
          /\ \A i \in 1..(idx - 1) : Verifies(ALL_FILES[i])
          /\ \A i \in (idx + 1)..Len(ALL_FILES) : fetched[ALL_FILES[i]] = 0
          /\ path = "none"
          /\ done = {}

\* One iteration of _check_download on the current manifest file.
C14_Step ==
    pc = "check_download" =>
        LET f == ALL_FILES[idx]
        IN  /\ Verifies(f) =>
                  /\ fetched' = fetched
                  /\ raw' = raw
                  /\ pc' # "raised"
            /\ ~Verifies(f) =>
                  /\ fetched' = [fetched EXCEPT ![f] = IF cfg.download THEN 1 ELSE 0]
                  /\ \A g \in DOMAIN ALL_FILES \ {f} : raw'[g] = raw[g]
                  /\ ~cfg.download => raw' = raw
                  /\ ~verify_file(raw'[f], ManifestSum(f), cfg.verify_sha256) =>
                        pc' = "raised"
            /\ pc' = "check_download" => idx' = idx + 1
            /\ pc' = "decompress" => idx = Len(ALL_FILES)
            /\ pc' \in {"check_download", "decompress", "raised"}
            /\ folders' = folders
            /\ cache' = cache
            /\ path' = "none"
            /\ done' = {}

\* C14: the manifest files are handled in manifest order; one that verifies
\* is not fetched; one that does not verify is fetched once if download is on
\* and not at all if it is off; if it then still does not verify the run ends
\* with an error, nothing having been decompressed or extracted, and nothing
\* is fetched a second time.
C14_FetchOnce == [](C14_State) /\ [][C14_Step]_vars

\* A missing file was fetched, the fetched bytes do not verify, and the run
\* has ended with an error.
C14_Witness ==
    /\ pc = "raised"
    /\ path = "none"
    /\ cfg.download
    /\ cfg.verify_sha256
    /\ \E f \in DOMAIN ALL_FILES :
          /\ fetched[f] = 1
          /\ raw[f].exists
          /\ ~Verifies(f)
          /\ \A g \in DOMAIN ALL_FILES : g < f => Verifies(g) /\ fetched[g] = 0

\* A direct call of _decompress is under way or has ended.
Decompressing == call.fn = "decompress"
Forced == call.arg[1]
FoldersBefore == call.arg[2]

\* The archives among the first n that a call must run unzip on.
MustUnzip(force, before, n) ==
    LET Due(z) == force \/ before[z] = "absent"
    IN  SelectSeq([z \in 1..n |-> z], Due)

\* Archives the loop has dealt with, the one it failed on included.
Handled ==
    IF call.applied THEN NumZips
    ELSE IF pc = "raised" THEN idx
    ELSE idx - 1

\* C15: _decompress without force runs unzip only for the archives whose
\* target directory does not exist and leaves every existing target as it is,
\* so a second call after a call that succeeded runs no unzip and changes
\* nothing; with force unzip is run for every archive.
C15_Idempotent ==
    Decompressing =>
        /\ call.out = MustUnzip(Forced, FoldersBefore, Handled)
        /\ ~Forced =>
              \A z \in 1..NumZips :
                  FoldersBefore[z] # "absent" => folders[z] = FoldersBefore[z]
        /\ (call.applied /\ Forced) => call.out = [z \in 1..NumZips |-> z]
        /\ (call.applied /\ call.arg[3] = "after_success") =>
              /\ \A z \in 1..NumZips : FoldersBefore[z] # "absent"
              /\ ~Forced => call.out = <<>> /\ folders = FoldersBefore

\* A second call without force has ended after a first call that unpacked.
C15_Witness ==
    /\ Decompressing
    /\ call.applied
    /\ ~Forced
    /\ call.arg[3] = "after_success"
    /\ call.out = <<>>
    /\ run = 2
    /\ \E z \in 1..NumZips : folders[z] = "full"

RECURSIVE CountBefore(_)
\* Sum of the trial counts of the sessions before session k.
CountBefore(k) ==
    IF k = 1 THEN 0
    ELSE CountBefore(k - 1) + Len(worker_fn(k - 1).trial_data)

\* Row i (1-based) of both arrays has not been written.
Unwritten(i) == data[i] = Uninit /\ labels[i] = UninitLabel

\* When every session has been consumed no row is left unwritten.
C16_State ==
    Extracted =>
        /\ cursor = n_trials
        /\ CountBefore(NumSessions) + Len(worker_fn(NumSessions).trial_data) = n_trials
        /\ \A i \in 1..n_trials : data[i] # Uninit /\ labels[i] # UninitLabel

\* One step of the extraction: consuming session k's result writes the rows
\* of its region, which were unwritten, and no other row; no other step
\* writes a row.
C16_Step ==
    /\ (pc = "pool" /\ delivered' # delivered /\ pc' # "raised") =>
          LET k == CHOOSE j \in delivered' \ delivered : TRUE
              r == results[k]
              c_k == CountBefore(k)
              count_k == Len(r.trial_data)
          IN  /\ delivered' \ delivered = {k}
              /\ cursor = c_k
              /\ cursor' = c_k + count_k
              /\ Len(r.trial_labels) = count_k
              /\ \A i \in 1..n_trials :
                    IF i > c_k /\ i <= c_k + count_k
                    THEN /\ Unwritten(i)
                         /\ data'[i] = r.trial_data[i - c_k]
                         /\ labels'[i] = r.trial_labels[i - c_k]
                    ELSE /\ data'[i] = data[i]
                         /\ labels'[i] = labels[i]
    /\ (pc = "pool" /\ delivered' = delivered) =>
          <<data', labels', cursor'>> = <<data, labels, cursor>>
    /\ pc \in {SavePhases[i] : i \in DOMAIN SavePhases} =>
          <<data', labels', cursor'>> = <<data, labels, cursor>>

\* C16: session k is written to the rows [c_k, c_k + count_k), c_k being the
\* sum of the trial counts of the sessions before it; the regions of
\* different sessions neither overlap nor leave a gap, so at completion every
\* row of the tensor and of the label vector has been written exactly once.
C16_Regions == [](C16_State) /\ [][C16_Step]_vars

\* The last session's region has been written after the others.
C16_Witness ==
    /\ Extracted
    /\ pc = "save_data"
    /\ delivered = SessionIds
    /\ cursor = CountBefore(NumSessions) + TrialsPerSession
    /\ data[n_trials] # Uninit

\* The decimation step of the signals an object with transform t works on.
StepOf(t) == IF t = NoTransform THEN 1 ELSE t

\* The previous run built and persisted the arrays for the same directory and
\* trial_duration_ms under another transform than the current object's.
AfterBuildWithOtherTransform ==
    /\ AfterBuild
    /\ prev.ret.data[1].step # StepOf(cfg.transform)

\* C17: after one configuration has built and persisted its arrays, a run of
\* a configuration with the same directory and trial_duration_ms and another
\* transform, without force_extract, takes the cached arrays: it returns the
\* first configuration's arrays, of the first configuration's shape, starts
\* no worker and writes no cache file.
C17_TransformNotInKey ==
    (AfterBuildWithOtherTransform /\ ~cfg.force_extract) =>
        /\ pc = "extract" => TakeCached(cfg.force_extract, Entry, cfg.verify_sha256)
        /\ path # "none" =>
              /\ path = "hit"
              /\ pc = "returned"
              /\ ret = prev.ret
              /\ Shape(ret.data[1]) # cfg.output_shape
              /\ done = {}
              /\ delivered = {}
              /\ written = {}

\* A run with Downsample(2) has returned the arrays built with no transform.
C17_Witness ==
    /\ AfterBuildWithOtherTransform
    /\ ~cfg.force_extract
    /\ cfg.transform = 2
    /\ pc = "returned"
    /\ path = "hit"
    /\ ret.data[1].step = 1

\* C18: with Downsample(k), whether or not k divides the original rate, the
\* trial of a raw onset t is sliced at index floor(t / k) of the decimated
\* signal, the index of the sample the transform kept for t.
C18_OnsetByFactor ==
    (Parsed /\ ParsedFactor # NoTransform) => \A b \in 1..NumBlocks :
        /\ ParsedTrial(b).step = ParsedFactor
        /\ SlicedAt(b) = ParsedOnset \div ParsedFactor

\* Every manifest file verifies under the current object's setting.
AllVerify == \A i \in 1..Len(ALL_FILES) : Verifies(ALL_FILES[i])
\* _decompress has gone through every archive: each target directory exists.
AllUnpacked == \A z \in 1..NumZips : folders[z] # "absent"
\* get_data is past _check_download, or was when it raised.
PastCheck == pc \in {"decompress", "extract", "pool", "returned"} \cup
                    {SavePhases[i] : i \in DOMAIN SavePhases}

C19_State ==
    /\ PastCheck => AllVerify
    /\ pc = "decompress" => path = "none" /\ done = {} /\ written = {}
    /\ (PastCheck /\ pc # "decompress") => AllUnpacked
    /\ path # "none" => AllVerify /\ AllUnpacked
    /\ done # {} => path = "miss"
    /\ written # {} => path = "miss" /\ delivered = SessionIds
    /\ ret # NoRet => pc = "returned"
    /\ (pc = "returned" /\ path = "miss") => written = CacheFileNames
    /\ (pc = "returned" /\ path = "hit") =>
          AllVerify /\ AllUnpacked /\ written = {} /\ ret # NoRet

C19_Step ==
    /\ folders' # folders => pc = "decompress" /\ AllVerify
    /\ (path = "none" /\ path' # "none") => pc = "extract" /\ AllUnpacked
    /\ (written = {} /\ written' # {}) => delivered = SessionIds /\ written' = {"data"}
    /\ (ret = NoRet /\ ret' # NoRet /\ path' = "miss") =>
          /\ written = CacheFileNames \ {"labels_sha"}
          /\ written' = CacheFileNames

\* C19: get_data runs its phases in a fixed order: every manifest file
\* verifies before any archive is unpacked, every archive has been gone
\* through before the reuse decision, every session result is consumed before
\* the first cache file is written, the arrays are returned with the write of
\* the label sidecar as the last step, and the cached arrays are returned only
\* when every manifest file verifies and every archive has been gone through.
C19_PhaseOrder == [](C19_State) /\ [][C19_Step]_vars

\* A run has returned the cached arrays after verifying every manifest file
\* by digest, the run before having built them.
C19_Witness ==
    /\ pc = "returned"
    /\ path = "hit"
    /\ cfg.verify_sha256
    /\ AllVerify
    /\ prev.pc = "returned"
    /\ prev.path = "miss"

C20_State ==
    path = "hit" =>
        /\ pc \in {"returned", "raised"}
        /\ done = {}
        /\ delivered = {}
        /\ \A k \in SessionIds : results[k] = NoResult
        /\ cursor = 0
        /\ written = {}

C20_Step ==
    /\ path' = "hit" => cache' = cache
    /\ cache' # cache => path = "miss" /\ path' = "miss"

\* C20: a run that takes the cached arrays starts no worker, consumes no
\* session result and writes no cache file: the four files of every entry are
\* after the run what they were before it, and only a run on the miss branch
\* changes a cache file.
C20_HitWritesNothing == [](C20_State) /\ [][C20_Step]_vars

\* A run has returned the cached arrays, all four files present.
C20_Witness ==
    /\ pc = "returned"
    /\ path = "hit"
    /\ ret # NoRet
    /\ AllFourExist(Entry)

\* While the loop runs, a worker call is under way or the iterator has a
\* result to yield.
C21_PoolCanMove ==
    pc = "pool" => Running(done) # {} \/ ImapNext(done, delivered) # {}

\* Run r is in the loop over the pool's results.
InPool(r) == run = r /\ pc = "pool"
\* Run r has consumed every session and written the four cache files.
Persisted(r) ==
    /\ run = r
    /\ pc = "returned"
    /\ path = "miss"
    /\ delivered = SessionIds
    /\ written = CacheFileNames
\* Run r was ended by an exception.
Aborted(r) == run = r /\ pc = "raised"

\* C21: once a run's extraction has started, under fair scheduling of the
\* workers and the coordinator the run ends with every session consumed and
\* the four cache files written, or with an exception; in the loop there is
\* always a worker call under way or a result to yield, in whatever order the
\* workers finish.
C21_ExtractionEnds ==
    /\ [](C21_PoolCanMove)
    /\ \A r \in 1..MaxRuns : InPool(r) ~> (Persisted(r) \/ Aborted(r))

\* In the loop, a later session has finished before an earlier one and
\* nothing has been consumed yet.
C21_Witness ==
    /\ pc = "pool"
    /\ delivered = {}
    /\ \E k \in done : \E j \in SessionIds \ done : j < k

====
